---------------------------- MODULE Spec2Model ----------------------------
(***************************************************************************)
(* silencio2: inventory of redaction items, markdown segmentation, tag     *)
(* masking, multi-pattern matching, leftmost-longest conflict resolution,  *)
(* tag splicing (redact) and tag decoding (unredact).                      *)
(*                                                                         *)
(* A text is a sequence of one-character strings; every regular expression *)
(* of the source is modelled by an operator that scans such a sequence     *)
(* the way Python's re engine does for that expression.                    *)
(***************************************************************************)
EXTENDS Integers, Sequences, FiniteSets, TLC

VARIABLES
    items,      \* Inventory.items: ordered list of RedactionItem
    by_id,      \* Inventory._by_id: id -> position of the item object in items
    ret,        \* outcome of the last inventory call
    ret2,       \* outcome of the repeated add_or_merge call
    pc,         \* position of the driver
    text,       \* document handed to apply_redactions / mask_existing_tags
    red,        \* apply_redactions(text, inv): [text, matches]
    restored,   \* unredact_text(red.text, inv)
    red2,       \* apply_redactions(red.text, inv): [text, matches]
    masked,     \* mask_existing_tags(text)
    masked2,    \* mask_existing_tags(masked)
    raw,        \* raw match list handed to select_leftmost_longest
    selected,   \* select_leftmost_longest(raw)
    seg_out,    \* segment(text): list of [chunk, redactable]
    parsed,     \* list(parse_badges(lines)): the triples yielded and the error raised
    batch,      \* the redact command: files left, files written, total of matches
    disk,       \* the inventory file: the item list it holds
    writers     \* the running writer commands: position and in-memory inventory

vars == <<items, by_id, ret, ret2, pc, text, red, restored, red2,
          masked, masked2, raw, selected, seg_out, parsed, batch, disk, writers>>

----------------------------------------------------------------------------
(* Characters and strings                                                  *)

Digits == <<"0", "1", "2", "3", "4", "5", "6", "7", "8", "9">>

\* \d of the regular expressions
IsDigit(c) == \E i \in 1..10 : Digits[i] = c

\* \s of the regular expressions, and the characters str.strip() removes
IsSpace(c) == c \in {" ", "\n", "\t"}

\* the filler glyph U+25A0 written by mask_existing_tags
FILLER == "FILLER"

\* s[from:to] of Python, 0-based and end-exclusive, clipped like a slice
Slice(s, from, to) ==
    LET f == IF from < 0 THEN 0 ELSE from
        t == IF to > Len(s) THEN Len(s) ELSE to
    IN  IF t <= f THEN << >> ELSE SubSeq(s, f + 1, t)

\* s.startswith(lit, at) with a 0-based offset
StartsWithAt(s, at, lit) ==
    /\ at + Len(lit) <= Len(s)
    /\ \A k \in 1..Len(lit) : s[at + k] = lit[k]

RECURSIVE LStrip(_)
LStrip(s) ==
    IF s # << >> /\ IsSpace(Head(s)) THEN LStrip(Tail(s)) ELSE s

RECURSIVE RStrip(_)
RStrip(s) ==
    IF s # << >> /\ IsSpace(s[Len(s)]) THEN RStrip(SubSeq(s, 1, Len(s) - 1)) ELSE s

\* str.strip()
Strip(s) == RStrip(LStrip(s))

\* str(n) for n >= 0, as used by the f-string of the tag
RECURSIVE Dec(_)
Dec(n) ==
    IF n < 10 THEN <<Digits[n + 1]>>
    ELSE Dec(n \div 10) \o <<Digits[(n % 10) + 1]>>

DigitVal(c) == CHOOSE i \in 0..9 : Digits[i + 1] = c

\* int(digits) for a non-empty run of digits
RECURSIVE ParseInt(_)
ParseInt(ds) ==
    IF Len(ds) = 1 THEN DigitVal(ds[1])
    ELSE 10 * ParseInt(SubSeq(ds, 1, Len(ds) - 1)) + DigitVal(ds[Len(ds)])

\* "".join(parts)
RECURSIVE Join(_)
Join(parts) ==
    IF parts = << >> THEN << >> ELSE Head(parts) \o Join(Tail(parts))

\* reversed(list)
RECURSIVE Reversed(_)
Reversed(l) ==
    IF l = << >> THEN << >> ELSE Append(Reversed(Tail(l)), Head(l))

\* the first of a set of positions, or -1 when there is none: the
\* left-to-right scan of the regular expression engine
First(S) == IF S = {} THEN -1 ELSE CHOOSE p \in S : \A q \in S : p <= q

\* first 0-based position p >= from with s[p] = c, or Len(s) when there is none
FindChar(s, from, c) ==
    LET p == First({q \in from..(Len(s) - 1) : s[q + 1] = c})
    IN  IF p = -1 THEN Len(s) ELSE p

\* first 0-based position p >= from whose character is not a digit, or Len(s)
SkipDigits(s, from) ==
    First({q \in from..Len(s) : q = Len(s) \/ ~IsDigit(s[q + 1])})

\* first 0-based position p >= from whose character is not whitespace, or Len(s)
SkipSpaces(s, from) ==
    First({q \in from..Len(s) : q = Len(s) \/ ~IsSpace(s[q + 1])})

----------------------------------------------------------------------------
(* patterns.py: classification code                                        *)

\* CODE_RE = ^\([1-4]\)\([A-EX]\)(?:\([a-ex]\))?$
CodeOk(code) ==
    LET grp(k, set) == /\ code[k] = "(" /\ code[k + 1] \in set /\ code[k + 2] = ")"
        g1 == {"1", "2", "3", "4"}
        g2 == {"A", "B", "C", "D", "E", "X"}
        g3 == {"a", "b", "c", "d", "e", "x"}
    IN  \/ Len(code) = 6 /\ grp(1, g1) /\ grp(4, g2)
        \/ Len(code) = 9 /\ grp(1, g1) /\ grp(4, g2) /\ grp(7, g3)


----------------------------------------------------------------------------
(* models.py: Alias, RedactionItem, Inventory                              *)

\* alias_id of a canonical pattern or match (None in the source)
NoAlias == 0

\* Alias.no_empty / RedactionItem.no_empty: the surface is stored stripped and
\* an empty result is a validation error
SurfaceOk(surface) == Strip(surface) # << >>

\* RedactionItem(id, code, desc, surface), aliases empty, scope "global"
RedactionItem(id, code, desc, surface) ==
    [id |-> id, code |-> code, desc |-> desc, surface |-> Strip(surface),
     aliases |-> << >>, scope |-> "global"]

\* Alias(id, surface)
Alias(id, surface) == [id |-> id, surface |-> Strip(surface)]

\* max(iterable, default=0)
MaxOf(S) == IF S = {} THEN 0 ELSE CHOOSE m \in S : \A x \in S : x <= m

\* Inventory.model_post_init: {item.id: item for item in items}, the last
\* item of an id wins
BuildIndex(its) ==
    [i \in {its[k].id : k \in 1..Len(its)} |->
        MaxOf({k \in 1..Len(its) : its[k].id = i})]

\* a next_id that hands out the largest id in use
next_id_NoIncrement(its) == MaxOf({its[k].id : k \in 1..Len(its)})

\* Inventory.next_id
next_id(its) == MaxOf({its[k].id : k \in 1..Len(its)}) + 1

\* Inventory.find: the position of the item object, 0 for None
find(idx, item_id) == IF item_id \in DOMAIN idx THEN idx[item_id] ELSE 0

\* a loop body that knows the alias rule only
MergeHit_AliasRuleOnly(it, code, desc, norm_surface) ==
    /\ it.code = code /\ it.desc = desc
    /\ \E a \in 1..Len(it.aliases) : it.aliases[a].surface = norm_surface

\* the test of the add_or_merge loop body on one item
MergeHit(it, code, desc, norm_surface) ==
    \/ it.code = code /\ it.surface = norm_surface
    \/ /\ it.code = code /\ it.desc = desc
       /\ \E a \in 1..Len(it.aliases) : it.aliases[a].surface = norm_surface

\* an add_or_merge whose lookup compares the surface as given, not trimmed
add_or_merge_RawSurface(its, idx, code, desc, surface) ==
    LET norm_surface == Strip(surface)
        hits == {k \in 1..Len(its) : MergeHit(its[k], code, desc, surface)}
    IN  IF hits # {}
        THEN LET k == CHOOSE h \in hits : \A x \in hits : h <= x
             IN  [items |-> its, by_id |-> idx, raised |-> FALSE,
                  pos |-> k, id |-> its[k].id]
        ELSE IF ~CodeOk(code) \/ ~SurfaceOk(norm_surface)
        THEN [items |-> its, by_id |-> idx, raised |-> TRUE, pos |-> 0, id |-> 0]
        ELSE LET new_item == RedactionItem(next_id(its), code, desc, norm_surface)
                 its2 == Append(its, new_item)
                 idx2 == [i \in DOMAIN idx \cup {new_item.id} |->
                            IF i = new_item.id THEN Len(its2) ELSE idx[i]]
             IN  [items |-> its2, by_id |-> idx2, raised |-> FALSE,
                  pos |-> Len(its2), id |-> new_item.id]

\* an add_or_merge that registers the new item without validating it
add_or_merge_NoValidation(its, idx, code, desc, surface) ==
    LET norm_surface == Strip(surface)
        hits == {k \in 1..Len(its) : MergeHit(its[k], code, desc, norm_surface)}
    IN  IF hits # {}
        THEN LET k == CHOOSE h \in hits : \A x \in hits : h <= x
             IN  [items |-> its, by_id |-> idx, raised |-> FALSE,
                  pos |-> k, id |-> its[k].id]
        ELSE LET new_item == RedactionItem(next_id(its), code, desc, norm_surface)
                 its2 == Append(its, new_item)
                 idx2 == [i \in DOMAIN idx \cup {new_item.id} |->
                            IF i = new_item.id THEN Len(its2) ELSE idx[i]]
             IN  [items |-> its2, by_id |-> idx2,
                  raised |-> ~CodeOk(code) \/ ~SurfaceOk(norm_surface),
                  pos |-> Len(its2), id |-> new_item.id]

\* Inventory.add_or_merge: [items, by_id] after the call, whether it raised,
\* and the position and id of the returned item
add_or_merge(its, idx, code, desc, surface) ==
    LET norm_surface == Strip(surface)
        hits == {k \in 1..Len(its) : MergeHit(its[k], code, desc, norm_surface)}
    IN  IF hits # {}
        THEN LET k == CHOOSE h \in hits : \A x \in hits : h <= x
             IN  [items |-> its, by_id |-> idx, raised |-> FALSE,
                  pos |-> k, id |-> its[k].id]
        ELSE IF ~CodeOk(code) \/ ~SurfaceOk(norm_surface)
        THEN [items |-> its, by_id |-> idx, raised |-> TRUE, pos |-> 0, id |-> 0]
        ELSE LET new_item == RedactionItem(next_id(its), code, desc, norm_surface)
                 \* _register_item
                 its2 == Append(its, new_item)
                 idx2 == [i \in DOMAIN idx \cup {new_item.id} |->
                            IF i = new_item.id THEN Len(its2) ELSE idx[i]]
             IN  [items |-> its2, by_id |-> idx2, raised |-> FALSE,
                  pos |-> Len(its2), id |-> new_item.id]

\* an add_alias that looks for the surface as given, not trimmed
add_alias_RawCompare(its, idx, item_id, alias_surface) ==
    LET k == find(idx, item_id)
        s == Strip(alias_surface)
    IN  IF k = 0
        THEN [items |-> its, by_id |-> idx, raised |-> TRUE, value |-> 0]
        ELSE IF s = << >>
        THEN [items |-> its, by_id |-> idx, raised |-> TRUE, value |-> 0]
        ELSE IF \/ alias_surface = its[k].surface
                \/ \E a \in 1..Len(its[k].aliases) :
                        its[k].aliases[a].surface = alias_surface
        THEN [items |-> its, by_id |-> idx, raised |-> FALSE, value |-> 0]
        ELSE LET next_alias_id ==
                    MaxOf({its[k].aliases[a].id : a \in 1..Len(its[k].aliases)}) + 1
             IN  [items |-> [its EXCEPT ![k].aliases = Append(@, Alias(next_alias_id, s))],
                  by_id |-> idx, raised |-> FALSE, value |-> next_alias_id]

\* an add_alias that gives every new alias the id 1
add_alias_FirstId(its, idx, item_id, alias_surface) ==
    LET k == find(idx, item_id)
        s == Strip(alias_surface)
    IN  IF k = 0
        THEN [items |-> its, by_id |-> idx, raised |-> TRUE, value |-> 0]
        ELSE IF s = << >>
        THEN [items |-> its, by_id |-> idx, raised |-> TRUE, value |-> 0]
        ELSE IF \/ s = its[k].surface
                \/ \E a \in 1..Len(its[k].aliases) : its[k].aliases[a].surface = s
        THEN [items |-> its, by_id |-> idx, raised |-> FALSE, value |-> 0]
        ELSE [items |-> [its EXCEPT ![k].aliases = Append(@, Alias(1, s))],
              by_id |-> idx, raised |-> FALSE, value |-> 1]

\* Inventory.add_alias: [items, by_id] after the call, whether it raised, and
\* the returned alias id (0: the surface is already there)
add_alias(its, idx, item_id, alias_surface) ==
    LET k == find(idx, item_id)
        s == Strip(alias_surface)
    IN  IF k = 0
        THEN [items |-> its, by_id |-> idx, raised |-> TRUE, value |-> 0]
        ELSE IF s = << >>
        THEN [items |-> its, by_id |-> idx, raised |-> TRUE, value |-> 0]
        ELSE IF \/ s = its[k].surface
                \/ \E a \in 1..Len(its[k].aliases) : its[k].aliases[a].surface = s
        THEN [items |-> its, by_id |-> idx, raised |-> FALSE, value |-> 0]
        ELSE LET next_alias_id ==
                    MaxOf({its[k].aliases[a].id : a \in 1..Len(its[k].aliases)}) + 1
             IN  [items |-> [its EXCEPT ![k].aliases = Append(@, Alias(next_alias_id, s))],
                  by_id |-> idx, raised |-> FALSE, value |-> next_alias_id]

\* Inventory.get_alias_surface: the surface, or << >> for None (no stored
\* surface is empty)
get_alias_surface(its, idx, item_id, alias_id) ==
    LET k == find(idx, item_id)
    IN  IF k = 0 THEN << >>
        ELSE LET hit == {a \in 1..Len(its[k].aliases) : its[k].aliases[a].id = alias_id}
             IN  IF hit = {} THEN << >>
                 ELSE its[k].aliases[CHOOSE a \in hit : \A x \in hit : a <= x].surface

----------------------------------------------------------------------------
(* mdseg.py: segmentation at code fences, masking of existing tags         *)

\* the backquote character U+0060 (a TLA+ string cannot hold it)
BACKTICK == "BACKTICK"

\* the fence marker
TICKS == <<BACKTICK, BACKTICK, BACKTICK>>

\* ^ under re.M, at 0-based position p
IsLineStart(s, p) == p = 0 \/ s[p] = "\n"

\* $ under re.M, at 0-based position p
IsLineEnd(s, p) == p = Len(s) \/ s[p + 1] = "\n"

\* first position p >= from where $ matches (Len(s) at the latest)
NextLineEnd(s, from) == First({q \in from..Len(s) : IsLineEnd(s, q)})

\* first position p >= from where (^```$) matches, or -1
NextCloser(s, from) ==
    First({q \in from..(Len(s) - 3) :
            IsLineStart(s, q) /\ StartsWithAt(s, q, TICKS) /\ IsLineEnd(s, q + 3)})

\* FENCE = (^```.*?$)(.*?)(^```$) with re.M | re.S, tried at position i: the
\* end of the match, or -1.  The lazy first group stops at the first line end,
\* the lazy second group at the first closing line after it.
FENCE(s, i) ==
    IF ~(IsLineStart(s, i) /\ StartsWithAt(s, i, TICKS)) THEN -1
    ELSE LET p == NextCloser(s, NextLineEnd(s, i + 3))
         IN  IF p = -1 THEN -1 ELSE p + 3

\* FENCE.finditer(text) from position pos: the spans <<start, end>> in order
RECURSIVE FenceSpans(_, _)
FenceSpans(s, pos) ==
    LET i == First({q \in pos..Len(s) : FENCE(s, q) # -1})
    IN  IF i = -1 THEN << >>
        ELSE <<(<<i, FENCE(s, i)>>)>> \o FenceSpans(s, FENCE(s, i))

\* a loop without the text that follows the last fence
RECURSIVE SegmentLoop_NoTail(_, _, _)
SegmentLoop_NoTail(s, spans, pos) ==
    IF spans = << >>
    THEN IF pos = 0 /\ pos < Len(s)
         THEN <<[chunk |-> Slice(s, pos, Len(s)), redactable |-> TRUE]>>
         ELSE << >>
    ELSE LET m == Head(spans)
             before == IF m[1] > pos
                       THEN <<[chunk |-> Slice(s, pos, m[1]), redactable |-> TRUE]>>
                       ELSE << >>
         IN  before \o <<[chunk |-> Slice(s, m[1], m[2]), redactable |-> FALSE]>>
                    \o SegmentLoop_NoTail(s, Tail(spans), m[2])

\* the loop of segment over the fence spans, with its running pos
RECURSIVE SegmentLoop(_, _, _)
SegmentLoop(s, spans, pos) ==
    IF spans = << >>
    THEN IF pos < Len(s) THEN <<[chunk |-> Slice(s, pos, Len(s)), redactable |-> TRUE]>>
         ELSE << >>
    ELSE LET m == Head(spans)
             before == IF m[1] > pos
                       THEN <<[chunk |-> Slice(s, pos, m[1]), redactable |-> TRUE]>>
                       ELSE << >>
         IN  before \o <<[chunk |-> Slice(s, m[1], m[2]), redactable |-> FALSE]>>
                    \o SegmentLoop(s, Tail(spans), m[2])

\* segment(text): the (chunk, redactable) tuples
segment(s) == SegmentLoop(s, FenceSpans(s, 0), 0)

TAG_OPEN == <<"[", "R", "E", "D", "A", "C", "T", "E", "D", "(", "#">>

\* TAG_BLOCK = \[REDACTED\(#\d+\):\s*\([^)]+\),\s*[^]]+\] tried at position i:
\* the end of the match, or -1
TAG_BLOCK(s, i) ==
    IF ~StartsWithAt(s, i, TAG_OPEN) THEN -1
    ELSE LET a == i + Len(TAG_OPEN)
             b == SkipDigits(s, a)
         IN  IF b = a \/ ~StartsWithAt(s, b, <<")", ":">>) THEN -1
             ELSE LET c == SkipSpaces(s, b + 2)
                  IN  IF ~StartsWithAt(s, c, <<"(">>) THEN -1
                      ELSE LET d == FindChar(s, c + 1, ")")
                           IN  IF d = c + 1 \/ ~StartsWithAt(s, d, <<")", ",">>) THEN -1
                               ELSE LET f == FindChar(s, d + 2, "]")
                                    IN  IF f = d + 2 \/ f >= Len(s) THEN -1
                                        ELSE f + 1

\* the matches TAG_BLOCK.sub works through from position pos: leftmost first,
\* the scan resuming at the end of each match; the set of positions they cover
RECURSIVE TagBlockPositions(_, _)
TagBlockPositions(s, pos) ==
    LET i == First({q \in pos..Len(s) : TAG_BLOCK(s, q) # -1})
    IN  IF i = -1 THEN {}
        ELSE (i..(TAG_BLOCK(s, i) - 1)) \cup TagBlockPositions(s, TAG_BLOCK(s, i))

\* mask_existing_tags(text): repl writes one filler per character of a match
mask_existing_tags(s) ==
    LET covered == TagBlockPositions(s, 0)
    IN  [k \in 1..Len(s) |-> IF (k - 1) \in covered THEN FILLER ELSE s[k]]

----------------------------------------------------------------------------
(* automaton.py: pattern matcher and conflict resolver                     *)

\* one tuple of the pattern list: (item_id, code, desc, variant, alias_id, surface)
Pattern(item_id, code, desc, variant, alias_id, surface) ==
    [item_id |-> item_id, code |-> code, desc |-> desc, variant |-> variant,
     alias_id |-> alias_id, surface |-> surface]

\* Match(start, end, item_id, code, desc, surface, variant, alias_id)
Match(start, end, p) ==
    [start |-> start, end |-> end, item_id |-> p.item_id, code |-> p.code,
     desc |-> p.desc, surface |-> p.surface, variant |-> p.variant,
     alias_id |-> p.alias_id]

\* build_automaton: the words of the automaton with their payloads.  Patterns
\* with an empty surface are skipped; add_word of a word that is already there
\* replaces its payload, so the last pattern of a surface is the one kept.
build_automaton(patterns) ==
    LET words == {patterns[k].surface : k \in 1..Len(patterns)} \ {<< >>}
    IN  [w \in words |->
            patterns[MaxOf({k \in 1..Len(patterns) : patterns[k].surface = w})]]

\* the words of A that end at end_index (inclusive, 0-based) of text
WordsEndingAt(A, s, end_index) ==
    {w \in DOMAIN A : /\ Len(w) <= end_index + 1
                      /\ SubSeq(s, end_index + 2 - Len(w), end_index + 1) = w}

\* what A.iter(text) reports at one end_index: the longest word first, then
\* its suffixes that are words
RECURSIVE IterAt(_, _, _)
IterAt(A, ws, end_index) ==
    IF ws = {} THEN << >>
    ELSE LET w == CHOOSE x \in ws : \A y \in ws : Len(y) <= Len(x)
         IN  <<Match(end_index - Len(w) + 1, end_index + 1, A[w])>>
                \o IterAt(A, ws \ {w}, end_index)

\* the loop of collect_matches over A.iter(text) from end index from on,
\* end_index ascending
RECURSIVE CollectFrom(_, _, _)
CollectFrom(A, s, from) ==
    LET e == First({q \in from..(Len(s) - 1) : WordsEndingAt(A, s, q) # {}})
    IN  IF e = -1 THEN << >>
        ELSE IterAt(A, WordsEndingAt(A, s, e), e) \o CollectFrom(A, s, e + 1)

\* collect_matches(A, text)
collect_matches(A, s) == CollectFrom(A, s, 0)

\* a sort key without the minus sign: (m.start, m.end - m.start)
KeyLess_ShortestFirst(a, b) ==
    \/ a.start < b.start
    \/ a.start = b.start /\ (a.end - a.start) < (b.end - b.start)

\* the sort key of select_leftmost_longest: (m.start, -(m.end - m.start))
KeyLess(a, b) ==
    \/ a.start < b.start
    \/ a.start = b.start /\ (a.end - a.start) > (b.end - b.start)

\* sorted(): stable, an element stays behind the elements of equal key that
\* precede it in the input
RECURSIVE InsertSorted(_, _)
InsertSorted(sorted, m) ==
    IF sorted = << >> THEN <<m>>
    ELSE IF KeyLess(m, Head(sorted)) THEN <<m>> \o sorted
    ELSE <<Head(sorted)>> \o InsertSorted(Tail(sorted), m)

RECURSIVE Sorted(_, _)
Sorted(done, rest) ==
    IF rest = << >> THEN done
    ELSE Sorted(InsertSorted(done, Head(rest)), Tail(rest))

\* a sweep that never advances last_end
RECURSIVE Sweep_NoAdvance(_, _, _)
Sweep_NoAdvance(ms, last_end, sel) ==
    IF ms = << >> THEN sel
    ELSE IF Head(ms).start >= last_end
    THEN Sweep_NoAdvance(Tail(ms), last_end, Append(sel, Head(ms)))
    ELSE Sweep_NoAdvance(Tail(ms), last_end, sel)

\* a sweep that keeps a match only when it starts after last_end
RECURSIVE Sweep_Strict(_, _, _)
Sweep_Strict(ms, last_end, sel) ==
    IF ms = << >> THEN sel
    ELSE IF Head(ms).start > last_end
    THEN Sweep_Strict(Tail(ms), Head(ms).end, Append(sel, Head(ms)))
    ELSE Sweep_Strict(Tail(ms), last_end, sel)

\* the sweep of select_leftmost_longest with its last_end
RECURSIVE Sweep(_, _, _)
Sweep(ms, last_end, sel) ==
    IF ms = << >> THEN sel
    ELSE IF Head(ms).start >= last_end
    THEN Sweep(Tail(ms), Head(ms).end, Append(sel, Head(ms)))
    ELSE Sweep(Tail(ms), last_end, sel)

\* select_leftmost_longest(matches)
select_leftmost_longest(matches) == Sweep(Sorted(<< >>, matches), -1, << >>)

----------------------------------------------------------------------------
(* redact.py                                                               *)

\* the pattern tuples of one item: its canonical surface, then its aliases
ItemPatterns(it) ==
    <<Pattern(it.id, it.code, it.desc, "c", NoAlias, it.surface)>>
    \o [a \in 1..Len(it.aliases) |->
            Pattern(it.id, it.code, it.desc, "a", it.aliases[a].id, it.aliases[a].surface)]

\* the pattern list built by apply_redactions from inventory.items
RECURSIVE Patterns(_)
Patterns(its) ==
    IF its = << >> THEN << >> ELSE ItemPatterns(Head(its)) \o Patterns(Tail(its))

\* the tag written for a match:
\* f"[REDACTED(#{match.item_id}|var={v}): {match.code}, {match.desc}]"
TagOf(m) ==
    LET v == IF m.variant = "c" THEN <<"c">> ELSE <<"a">> \o Dec(m.alias_id)
    IN  TAG_OPEN \o Dec(m.item_id) \o <<"|", "v", "a", "r", "=">> \o v
            \o <<")", ":", " ">> \o m.code \o <<",", " ">> \o m.desc \o <<"]">>

\* a right-to-left loop that leaves its cursor at the end of the chunk
RECURSIVE SpliceLoop_KeepsCursor(_, _, _, _)
SpliceLoop_KeepsCursor(chunk, rsel, cursor, out) ==
    IF rsel = << >> THEN Append(out, Slice(chunk, 0, cursor))
    ELSE LET m == Head(rsel)
         IN  SpliceLoop_KeepsCursor(chunk, Tail(rsel), cursor,
                        out \o <<Slice(chunk, m.end, cursor), TagOf(m),
                                 Slice(chunk, m.start, m.start)>>)

\* the right-to-left loop over reversed(selected) with its cursor and out list
RECURSIVE SpliceLoop(_, _, _, _)
SpliceLoop(chunk, rsel, cursor, out) ==
    IF rsel = << >> THEN Append(out, Slice(chunk, 0, cursor))
    ELSE LET m == Head(rsel)
         IN  SpliceLoop(chunk, Tail(rsel), m.start,
                        out \o <<Slice(chunk, m.end, cursor), TagOf(m),
                                 Slice(chunk, m.start, m.start)>>)

\* a loop body without the test of the redactable flag
RedactChunk_IgnoresFlag(A, seg) ==
    LET safe == mask_existing_tags(seg.chunk)
        sel == select_leftmost_longest(collect_matches(A, safe))
    IN  IF sel = << >> THEN [piece |-> seg.chunk, selected |-> << >>]
        ELSE [piece |-> Join(Reversed(SpliceLoop(seg.chunk, Reversed(sel),
                                                 Len(seg.chunk), << >>))),
              selected |-> sel]

\* the body of the segment loop for one chunk: the piece appended to rebuilt
\* and the matches added to all_matches
RedactChunk(A, seg) ==
    IF ~seg.redactable THEN [piece |-> seg.chunk, selected |-> << >>]
    ELSE LET safe == mask_existing_tags(seg.chunk)
             sel == select_leftmost_longest(collect_matches(A, safe))
         IN  IF sel = << >> THEN [piece |-> seg.chunk, selected |-> << >>]
             ELSE [piece |-> Join(Reversed(SpliceLoop(seg.chunk, Reversed(sel),
                                                      Len(seg.chunk), << >>))),
                   selected |-> sel]

\* an apply_redactions without the early return for an empty pattern list
\* that assembles its output from the masked copies of the chunks
apply_redactions_FromMasked(s, its) ==
    LET A == build_automaton(Patterns(its))
        segments == segment(s)
        done == [k \in 1..Len(segments) |->
                    RedactChunk(A, [chunk |-> IF segments[k].redactable
                                              THEN mask_existing_tags(segments[k].chunk)
                                              ELSE segments[k].chunk,
                                    redactable |-> segments[k].redactable])]
    IN  [text |-> Join([k \in 1..Len(done) |-> done[k].piece]),
         matches |-> Join([k \in 1..Len(done) |-> done[k].selected])]

\* apply_redactions(text, inventory): the redacted text and the match list
apply_redactions(s, its) ==
    LET patterns == Patterns(its)
    IN  IF patterns = << >> THEN [text |-> s, matches |-> << >>]
        ELSE LET A == build_automaton(patterns)
                 segments == segment(s)
                 done == [k \in 1..Len(segments) |-> RedactChunk(A, segments[k])]
             IN  [text |-> Join([k \in 1..Len(done) |-> done[k].piece]),
                  matches |-> Join([k \in 1..Len(done) |-> done[k].selected])]

----------------------------------------------------------------------------
(* unredact.py                                                             *)

\* TAG_WITH_VARIANT =
\*   \[REDACTED\(#(?P<id>\d+)\|var=(?P<var>c|a\d+)\):\s*[^,]+,\s*[^]]+\]
\* tried at position i: the end of the match (-1: no match) and the spans of
\* the groups id and var
TAG_WITH_VARIANT(s, i) ==
    LET no == [end |-> -1, id |-> << >>, var |-> << >>]
    IN  IF ~StartsWithAt(s, i, TAG_OPEN) THEN no
        ELSE LET a == i + Len(TAG_OPEN)
                 b == SkipDigits(s, a)
                 v == b + 5
             IN  IF b = a \/ ~StartsWithAt(s, b, <<"|", "v", "a", "r", "=">>) THEN no
                 ELSE LET w == IF StartsWithAt(s, v, <<"c">>) THEN v + 1
                               ELSE IF StartsWithAt(s, v, <<"a">>)
                                       /\ SkipDigits(s, v + 1) > v + 1
                               THEN SkipDigits(s, v + 1)
                               ELSE -1
                      IN  IF w = -1 \/ ~StartsWithAt(s, w, <<")", ":">>) THEN no
                          ELSE LET g == w + 2
                                   h == FindChar(s, g, ",")
                                   f == FindChar(s, h + 1, "]")
                               IN  IF h = g \/ h >= Len(s) \/ f = h + 1 \/ f >= Len(s)
                                   THEN no
                                   ELSE [end |-> f + 1, id |-> Slice(s, a, b),
                                         var |-> Slice(s, v, w)]

\* a repl that drops the tag of an item it does not find
Repl_DropsUnknown(s, i, m, its, idx) ==
    LET item_id == ParseInt(m.id)
        k == find(idx, item_id)
    IN  IF k = 0 THEN << >>
        ELSE IF m.var = <<"c">> THEN its[k].surface
        ELSE LET alias_surface ==
                    get_alias_surface(its, idx, item_id, ParseInt(Tail(m.var)))
             IN  IF alias_surface # << >> THEN alias_surface ELSE its[k].surface

\* repl of unredact_text for one matched tag
Repl(s, i, m, its, idx) ==
    LET item_id == ParseInt(m.id)
        k == find(idx, item_id)
    IN  IF k = 0 THEN Slice(s, i, m.end)
        ELSE IF m.var = <<"c">> THEN its[k].surface
        ELSE LET alias_surface ==
                    get_alias_surface(its, idx, item_id, ParseInt(Tail(m.var)))
             IN  IF alias_surface # << >> THEN alias_surface ELSE its[k].surface

\* TAG_WITH_VARIANT.sub(repl, text) from position pos
RECURSIVE UnredactFrom(_, _, _, _)
UnredactFrom(s, pos, its, idx) ==
    LET i == First({q \in pos..Len(s) : TAG_WITH_VARIANT(s, q).end # -1})
    IN  IF i = -1 THEN Slice(s, pos, Len(s))
        ELSE LET m == TAG_WITH_VARIANT(s, i)
             IN  Slice(s, pos, i) \o Repl(s, i, m, its, idx)
                    \o UnredactFrom(s, m.end, its, idx)

\* unredact_text(text, inventory)
unredact_text(s, its, idx) == UnredactFrom(s, 0, its, idx)

----------------------------------------------------------------------------
(* Bounds and input values                                                 *)

\* most items an inventory is grown to
MaxItems == 2
\* most aliases one item is given
MaxAliases == 1
\* most fragments a document is put together from
MaxFrags == 2

\* concatenations of at most n fragments of F
RECURSIVE Concats(_, _)
Concats(F, n) ==
    IF n = 0 THEN {<< >>}
    ELSE LET shorter == Concats(F, n - 1)
         IN  shorter \cup {f \o t : f \in F, t \in shorter}

Code1A == <<"(", "1", ")", "(", "A", ")">>

\* a tag as far as the start of its desc, as the redactor writes it for item 1
TagHead == TAG_OPEN \o <<"1", "|", "v", "a", "r", "=", "c", ")", ":", " ">>
               \o Code1A \o <<",", " ">>

\* a tag of the grammar before the variant marker was added
OldTag == TAG_OPEN \o <<"1", ")", ":", " ", "(", "1", ")", ",", " ", "x", "]">>

\* a fenced block with a surface inside
FencedX == TICKS \o <<"\n", "x", "\n">> \o TICKS

\* a line that is a surface
XLine == <<"x", "\n">>

Codes == {Code1A}
Descs == {<<"k">>, <<"x">>, <<"]">>}
Surfaces == {<<"x">>, <<"x", "y">>, <<" ", "y">>}
Fragments == {<<"x">>, <<"y">>, <<"\n">>, <<"]">>, XLine, FencedX, TagHead, OldTag}
Texts == Concats(Fragments, MaxFrags)

\* no inventory call recorded
None == [op |-> "none"]
NoResult == [text |-> << >>, matches |-> << >>]

----------------------------------------------------------------------------
(* The redaction pipeline: grow an inventory, redact a document, then      *)
(* unredact the result or redact it again                                  *)

Init ==
    /\ items = << >>
    /\ by_id = BuildIndex(<< >>)
    /\ ret = None
    /\ ret2 = None
    /\ pc = "idle"
    /\ text = << >>
    /\ red = NoResult
    /\ restored = << >>
    /\ red2 = NoResult
    /\ masked = << >>
    /\ masked2 = << >>
    /\ raw = << >>
    /\ selected = << >>
    /\ seg_out = << >>
    /\ parsed = None
    /\ batch = None
    /\ disk = << >>
    /\ writers = << >>

\* inv.add_or_merge(code, desc, surface)
AddOrMerge(code, desc, surface) ==
    /\ pc = "idle"
    /\ LET r == add_or_merge(items, by_id, code, desc, surface)
       IN  /\ Len(r.items) <= MaxItems
           /\ items' = r.items
           /\ by_id' = r.by_id
           /\ ret' = [op |-> "add_or_merge", code |-> code, desc |-> desc,
                      surface |-> surface, raised |-> r.raised, id |-> r.id,
                      created |-> Len(r.items) > Len(items)]
    /\ ret2' = None
    /\ UNCHANGED <<pc, text, red, restored, red2, masked, masked2, raw, selected,
                 seg_out, parsed, batch, disk, writers>>

\* inv.add_alias(item_id, alias_surface)
AddAlias(item_id, alias_surface) ==
    /\ pc = "idle"
    /\ LET r == add_alias(items, by_id, item_id, alias_surface)
       IN  /\ \A k \in 1..Len(r.items) : Len(r.items[k].aliases) <= MaxAliases
           /\ items' = r.items
           /\ by_id' = r.by_id
           /\ ret' = [op |-> "add_alias", item_id |-> item_id,
                      surface |-> alias_surface, raised |-> r.raised,
                      value |-> r.value]
    /\ ret2' = None
    /\ UNCHANGED <<pc, text, red, restored, red2, masked, masked2, raw, selected,
                 seg_out, parsed, batch, disk, writers>>

\* red, matches = apply_redactions(t, inv); the driver keeps no return value
\* of the inventory calls beyond this point
Redact(t) ==
    /\ pc = "idle"
    /\ text' = t
    /\ red' = apply_redactions(t, items)
    /\ pc' = "redacted"
    /\ ret' = None
    /\ UNCHANGED <<items, by_id, ret2, restored, red2, masked, masked2, raw, selected,
                 seg_out, parsed, batch, disk, writers>>

\* restored = unredact_text(red, inv)
Unredact ==
    /\ pc = "redacted"
    /\ restored' = unredact_text(red.text, items, by_id)
    /\ pc' = "restored"
    /\ UNCHANGED <<items, by_id, ret, ret2, text, red, red2, masked, masked2, raw, selected,
                 seg_out, parsed, batch, disk, writers>>

\* apply_redactions(red, inv): a second pass over the redacted document
ReRedact ==
    /\ pc = "redacted"
    /\ red2' = apply_redactions(red.text, items)
    /\ pc' = "reredacted"
    /\ UNCHANGED <<items, by_id, ret, ret2, text, red, restored, masked, masked2, raw, selected,
                 seg_out, parsed, batch, disk, writers>>

Next ==
    \/ \E c \in Codes, d \in Descs, s \in Surfaces : AddOrMerge(c, d, s)
    \/ \E i \in 1..MaxItems, s \in Surfaces : AddAlias(i, s)
    \/ \E t \in Texts : Redact(t)
    \/ Unredact
    \/ ReRedact

Spec == Init /\ [][Next]_vars

----------------------------------------------------------------------------
(* Claims about the redaction pipeline (specification Spec)                *)

\* the text has a substring that matches the tag grammar
HasTag(s) == \E i \in 0..Len(s) : TAG_WITH_VARIANT(s, i).end # -1

\* occurrences of the tag opener "[REDACTED(#" in the text
CountOpeners(s) == Cardinality({i \in 0..Len(s) : StartsWithAt(s, i, TAG_OPEN)})

\* the tag the tag grammar prescribes for a resolved match
GrammarTag(m) ==
    <<"[", "R", "E", "D", "A", "C", "T", "E", "D", "(", "#">> \o Dec(m.item_id)
        \o <<"|", "v", "a", "r", "=">>
        \o (IF m.variant = "c" THEN <<"c">> ELSE <<"a">> \o Dec(m.alias_id))
        \o <<")", ":", " ">> \o m.code \o <<",", " ">> \o m.desc \o <<"]">>

\* left-to-right replacement of the resolved spans of a chunk by their tags
RECURSIVE LeftToRight(_, _, _)
LeftToRight(chunk, sel, pos) ==
    IF sel = << >> THEN Slice(chunk, pos, Len(chunk))
    ELSE Slice(chunk, pos, Head(sel).start) \o GrammarTag(Head(sel))
            \o LeftToRight(chunk, Tail(sel), Head(sel).end)

\* the resolved matches of one redactable chunk under the current inventory
Resolved(chunk) ==
    select_leftmost_longest(
        collect_matches(build_automaton(Patterns(items)), mask_existing_tags(chunk)))

\* what a segment has to become in the output
Expected(seg) ==
    IF seg.redactable THEN LeftToRight(seg.chunk, Resolved(seg.chunk), 0)
    ELSE seg.chunk

\* offset in the output at which the k-th segment's piece starts
RECURSIVE Off(_, _)
Off(segs, k) ==
    IF k = 1 THEN 0 ELSE Off(segs, k - 1) + Len(Expected(segs[k - 1]))

\* C1: for an inventory built by add_or_merge/add_alias and a text without
\* any tag, unredacting the redacted text gives the text back exactly
RoundTrip ==
    (pc = "restored" /\ ~HasTag(text)) => restored = text

\* C2: redacting an already redacted text changes nothing and reports no
\* match
ReRedactIdempotent ==
    pc = "reredacted" => (red2.text = red.text /\ red2.matches = << >>)

\* C5: every fenced span found by the segmenter stands byte-for-byte at its
\* place in the redacted text, and every applied match is an occurrence of
\* its surface inside one redactable segment
FencesUntouched ==
    pc = "redacted" =>
        LET segs == segment(text)
        IN  /\ \A k \in 1..Len(segs) :
                ~segs[k].redactable =>
                    Slice(red.text, Off(segs, k), Off(segs, k) + Len(segs[k].chunk))
                        = segs[k].chunk
            /\ \A i \in 1..Len(red.matches) :
                \E k \in 1..Len(segs) :
                    /\ segs[k].redactable
                    /\ 0 <= red.matches[i].start
                    /\ red.matches[i].end <= Len(segs[k].chunk)
                    /\ Slice(segs[k].chunk, red.matches[i].start, red.matches[i].end)
                            = red.matches[i].surface

\* a surface stood inside a fence and was left alone
FencesUntouchedWitness ==
    /\ pc = "redacted"
    /\ Len(red.matches) = 1
    /\ text = XLine \o FencedX
    /\ \E k \in 1..Len(items) : items[k].surface = <<"x">>

\* C6: each redactable chunk comes out as the chunk with exactly its resolved
\* spans replaced by their tags, as a left-to-right replacement builds it, the
\* rest unchanged and in order; the match list has one entry per emitted tag
SpliceCorrect ==
    pc = "redacted" =>
        LET segs == segment(text)
        IN  /\ \A k \in 1..Len(segs) :
                segs[k].redactable =>
                    Slice(red.text, Off(segs, k), Off(segs, k) + Len(Expected(segs[k])))
                        = Expected(segs[k])
            /\ Len(red.text) =
                 IF segs = << >> THEN 0
                 ELSE Off(segs, Len(segs)) + Len(Expected(segs[Len(segs)]))
            /\ red.matches =
                 Join([k \in 1..Len(segs) |->
                        IF segs[k].redactable THEN Resolved(segs[k].chunk) ELSE << >>])
            /\ CountOpeners(red.text) = CountOpeners(text) + Len(red.matches)

\* a canonical and an alias match were spliced into one chunk
SpliceCorrectWitness ==
    /\ pc = "redacted"
    /\ Len(red.matches) = 2
    /\ red.matches[1].variant = "c"
    /\ red.matches[2].variant = "a"
    /\ red.matches[1].end < red.matches[2].start

\* C7: with an inventory of zero items apply_redactions returns the text
\* unchanged and no match
EmptyInventoryNoOp ==
    (pc = "redacted" /\ items = << >>) => (red.text = text /\ red.matches = << >>)

\* a text with a fence and an old tag went through the empty inventory
EmptyInventoryWitness ==
    /\ pc = "redacted"
    /\ items = << >>
    /\ text = OldTag \o FencedX

----------------------------------------------------------------------------
(* The masker alone: mask a text, then mask the result                     *)

\* most fragments a text handed to the masker is put together from
MaxMaskFrags == 3

\* a tag as the redactor writes it
NewTag == TagHead \o <<"k", "]">>

\* the opening of an old-grammar tag as far as into its code, and the rest of
\* such a tag from the end of its code
OldHead == TAG_OPEN \o <<"2", ")", ":", " ", "(">>
OldTail == <<")", ",", " ", "y", "]">>

MaskFragments == {<<"x">>, <<"]">>, OldTag, NewTag, OldHead, OldTail}
MaskTexts == Concats(MaskFragments, MaxMaskFrags)

InitMask ==
    /\ items = << >>
    /\ by_id = BuildIndex(<< >>)
    /\ ret = None
    /\ ret2 = None
    /\ pc = "unmasked"
    /\ text \in MaskTexts
    /\ red = NoResult
    /\ restored = << >>
    /\ red2 = NoResult
    /\ masked = << >>
    /\ masked2 = << >>
    /\ raw = << >>
    /\ selected = << >>
    /\ seg_out = << >>
    /\ parsed = None
    /\ batch = None
    /\ disk = << >>
    /\ writers = << >>

\* masked = mask_existing_tags(text)
Mask ==
    /\ pc = "unmasked"
    /\ masked' = mask_existing_tags(text)
    /\ pc' = "masked"
    /\ UNCHANGED <<items, by_id, ret, ret2, text, red, restored, red2, masked2, raw, selected,
                 seg_out, parsed, batch, disk, writers>>

\* mask_existing_tags(masked)
MaskAgain ==
    /\ pc = "masked"
    /\ masked2' = mask_existing_tags(masked)
    /\ pc' = "masked2"
    /\ UNCHANGED <<items, by_id, ret, ret2, text, red, restored, red2, masked, raw, selected,
                 seg_out, parsed, batch, disk, writers>>

NextMask == Mask \/ MaskAgain

SpecMask == InitMask /\ [][NextMask]_vars

\* patterns.py, REDACTED_TAG_BLOCK_RE (the tag grammar with the variant marker):
\*   \[REDACTED\(#\d+\|var=(?:c|a\d+)\):\s*\([^)]+\),\s*[^\]]+\]
\* tried at position i: the end of the match, or -1
REDACTED_TAG_BLOCK_RE(s, i) ==
    IF ~StartsWithAt(s, i, TAG_OPEN) THEN -1
    ELSE LET a == i + Len(TAG_OPEN)
             b == SkipDigits(s, a)
             v == b + 5
         IN  IF b = a \/ ~StartsWithAt(s, b, <<"|", "v", "a", "r", "=">>) THEN -1
             ELSE LET w == IF StartsWithAt(s, v, <<"c">>) THEN v + 1
                           ELSE IF StartsWithAt(s, v, <<"a">>)
                                   /\ SkipDigits(s, v + 1) > v + 1
                           THEN SkipDigits(s, v + 1)
                           ELSE -1
                  IN  IF w = -1 \/ ~StartsWithAt(s, w, <<")", ":">>) THEN -1
                      ELSE LET c == SkipSpaces(s, w + 2)
                           IN  IF ~StartsWithAt(s, c, <<"(">>) THEN -1
                               ELSE LET d == FindChar(s, c + 1, ")")
                                    IN  IF d = c + 1 \/ ~StartsWithAt(s, d, <<")", ",">>)
                                        THEN -1
                                        ELSE LET f == FindChar(s, d + 2, "]")
                                             IN  IF f = d + 2 \/ f >= Len(s) THEN -1
                                                 ELSE f + 1

\* the 0-based positions of the text inside a substring that matches the tag
\* grammar, scanning left to right without overlap (from position pos)
RECURSIVE GrammarTagPositions(_, _)
GrammarTagPositions(s, pos) ==
    LET i == First({q \in pos..Len(s) : REDACTED_TAG_BLOCK_RE(s, q) # -1})
    IN  IF i = -1 THEN {}
        ELSE (i..(REDACTED_TAG_BLOCK_RE(s, i) - 1))
                \cup GrammarTagPositions(s, REDACTED_TAG_BLOCK_RE(s, i))

\* C3: the masker overwrites every substring that matches the tag grammar,
\* one filler per character: same length, identical outside the tag spans,
\* fillers inside them, and no grammar-conforming tag left in the result
MaskCoversTags ==
    pc = "masked" =>
        /\ Len(masked) = Len(text)
        /\ \A i \in 0..(Len(text) - 1) :
              masked[i + 1] = IF i \in GrammarTagPositions(text, 0) THEN FILLER
                              ELSE text[i + 1]
        /\ \A i \in 0..Len(masked) : REDACTED_TAG_BLOCK_RE(masked, i) = -1

\* C4: masking a masked text changes nothing
MaskIdempotent ==
    pc = "masked2" => masked2 = masked

----------------------------------------------------------------------------
(* The conflict resolver alone: resolve a raw match list                   *)

\* length of the span the raw matches lie in
MaxPos == 4
\* most raw matches in a list
MaxRaw == 3

\* the sequences over S of length at most n
RECURSIVE SeqsUpTo(_, _)
SeqsUpTo(S, n) ==
    IF n = 0 THEN {<< >>}
    ELSE LET shorter == SeqsUpTo(S, n - 1)
         IN  shorter \cup {<<x>> \o t : x \in S, t \in {u \in shorter : Len(u) = n - 1}}

\* raw matches of two items over a span of MaxPos characters
RawMatches ==
    {Match(sp[1], sp[2],
           Pattern(id, Code1A, <<"k">>, "c", NoAlias, [k \in 1..(sp[2] - sp[1]) |-> "x"])) :
        sp \in {q \in (0..(MaxPos - 1)) \X (1..MaxPos) : q[1] < q[2]}, id \in {1, 2}}

InitSelect ==
    /\ items = << >>
    /\ by_id = BuildIndex(<< >>)
    /\ ret = None
    /\ ret2 = None
    /\ pc = "raw"
    /\ text = << >>
    /\ red = NoResult
    /\ restored = << >>
    /\ red2 = NoResult
    /\ masked = << >>
    /\ masked2 = << >>
    /\ raw \in SeqsUpTo(RawMatches, MaxRaw)
    /\ selected = << >>
    /\ seg_out = << >>
    /\ parsed = None
    /\ batch = None
    /\ disk = << >>
    /\ writers = << >>

\* selected = select_leftmost_longest(raw)
Select ==
    /\ pc = "raw"
    /\ selected' = select_leftmost_longest(raw)
    /\ pc' = "selected"
    /\ UNCHANGED <<items, by_id, ret, ret2, text, red, restored, red2, masked, masked2, raw,
                 seg_out, parsed, batch, disk, writers>>

NextSelect == Select

SpecSelect == InitSelect /\ [][NextSelect]_vars

\* C8: the resolved list is ordered by start, no resolved match reaches into
\* the next one, and every resolved match is one of the raw matches
NonOverlap ==
    pc = "selected" =>
        /\ \A i \in 1..(Len(selected) - 1) :
              /\ selected[i].start <= selected[i + 1].start
              /\ selected[i].end <= selected[i + 1].start
        /\ \A i \in 1..Len(selected) : \E j \in 1..Len(raw) : raw[j] = selected[i]

\* overlapping raw matches went in and two disjoint ones came out
NonOverlapWitness ==
    /\ pc = "selected"
    /\ Len(raw) = 3
    /\ Len(selected) = 2
    /\ \E i, j \in 1..Len(raw) :
          i # j /\ raw[i].start < raw[j].end /\ raw[j].start < raw[i].end

\* the longest raw match that starts at offset st
LongestAt(st) ==
    MaxOf({raw[j].end - raw[j].start : j \in {n \in 1..Len(raw) : raw[n].start = st}})

\* a kept match that starts before st reaches past st
Blocked(st) ==
    \E i \in 1..Len(selected) : selected[i].start < st /\ st < selected[i].end

\* C9: of the raw matches that start at one offset which no earlier kept match
\* blocks, exactly one is kept and it is a longest one; the first kept match
\* has the smallest start of all and is a longest one there
LeftmostLongest ==
    (pc = "selected" /\ raw # << >>) =>
        /\ \A j \in 1..Len(raw) :
              ~Blocked(raw[j].start) =>
                  /\ Cardinality({i \in 1..Len(selected) :
                                    selected[i].start = raw[j].start}) = 1
                  /\ \A i \in 1..Len(selected) :
                        selected[i].start = raw[j].start =>
                            selected[i].end - selected[i].start = LongestAt(raw[j].start)
        /\ selected # << >>
        /\ \A j \in 1..Len(raw) : selected[1].start <= raw[j].start
        /\ selected[1].end - selected[1].start = LongestAt(selected[1].start)

\* "foo" was reported before "foobar" at the same offset and only "foobar"
\* was kept
LeftmostLongestWitness ==
    /\ pc = "selected"
    /\ Len(raw) = 2
    /\ raw[1].start = raw[2].start
    /\ raw[1].end < raw[2].end
    /\ selected = <<raw[2]>>

----------------------------------------------------------------------------
(* The inventory alone: add_or_merge, the same call repeated, add_alias    *)

Code3Ab == <<"(", "3", ")", "(", "A", ")", "(", "b", ")">>
\* a code outside the classification grammar
BadCode == <<"(", "9", ")", "(", "A", ")">>

InvCodes == {Code1A, Code3Ab, BadCode}
InvDescs == {<<"k">>, <<"x">>}
InvSurfaces == {<<"x">>, <<" ", "x">>, <<"y">>, <<" ">>}

\* the driver repeats its last add_or_merge call with the same arguments
AddOrMergeAgain ==
    /\ pc = "idle"
    /\ ret.op = "add_or_merge"
    /\ ret2 = None
    /\ LET r == add_or_merge(items, by_id, ret.code, ret.desc, ret.surface)
       IN  /\ items' = r.items
           /\ by_id' = r.by_id
           /\ ret2' = [op |-> "add_or_merge", raised |-> r.raised, id |-> r.id]
    /\ UNCHANGED <<ret, pc, text, red, restored, red2, masked, masked2, raw, selected,
                 seg_out, parsed, batch, disk, writers>>

NextInv ==
    \/ \E c \in InvCodes, d \in InvDescs, s \in InvSurfaces : AddOrMerge(c, d, s)
    \/ AddOrMergeAgain
    \/ \E i \in 1..(MaxItems + 1), s \in InvSurfaces : AddAlias(i, s)

SpecInv == Init /\ [][NextInv]_vars

\* some item of the list answers to (code, desc, surface): it has the code and
\* the trimmed surface as its canonical surface, or the code, the desc and the
\* trimmed surface among its aliases
Answers(its, code, desc, surface) ==
    \E k \in 1..Len(its) :
        /\ its[k].code = code
        /\ \/ its[k].surface = Strip(surface)
           \/ /\ its[k].desc = desc
              /\ \E a \in 1..Len(its[k].aliases) :
                    its[k].aliases[a].surface = Strip(surface)

\* C10: a first add_or_merge call with valid arguments adds exactly one item
\* when no item answers to them and none otherwise; the same call repeated
\* returns the same item id and leaves the item list and the index as they
\* were, so the two calls add at most one item
MergeIdempotent ==
    [][/\ (ret'.op = "add_or_merge" /\ ret2' = None /\ ~ret'.raised) =>
            /\ Len(items') = Len(items)
                    + (IF Answers(items, ret'.code, ret'.desc, ret'.surface) THEN 0 ELSE 1)
            /\ \E k \in 1..Len(items') : items'[k].id = ret'.id
       /\ ret2'.op = "add_or_merge" =>
            /\ ret2'.raised = ret.raised
            /\ ret2'.id = ret.id
            /\ items' = items
            /\ by_id' = by_id]_vars

\* a call that created a second item was repeated and returned that item
MergeIdempotentWitness ==
    /\ ret2.op = "add_or_merge"
    /\ ~ret2.raised
    /\ ret.created
    /\ ret.surface = <<" ", "x">>
    /\ Len(items) = 2
    /\ ret2.id = 2

\* C11: no two items of the list have the same code and the same canonical
\* surface, the surfaces compared trimmed
NoDuplicatePair ==
    \A i, j \in 1..Len(items) :
        i < j => ~(/\ items[i].code = items[j].code
                   /\ Strip(items[i].surface) = Strip(items[j].surface))

\* two items share a surface under different codes, and a call with the
\* untrimmed surface was merged into the first of them
NoDuplicatePairWitness ==
    /\ Len(items) = 2
    /\ items[1].surface = items[2].surface
    /\ items[1].code # items[2].code
    /\ ret.op = "add_or_merge"
    /\ ret.surface = <<" ", "x">>
    /\ ~ret.created
    /\ ret.id = 1

\* C12: whenever an item of the list has the code and the trimmed surface of
\* an add_or_merge call as its canonical pair, the call returns that item,
\* wherever an item matching by the alias rule stands in the list
CanonicalFirst ==
    (ret.op = "add_or_merge" /\ ~ret.raised) =>
        \A k \in 1..Len(items) :
            (items[k].code = ret.code /\ items[k].surface = Strip(ret.surface))
                => ret.id = items[k].id

\* C14: add_alias with an item id the list does not have, or with a surface
\* that is empty once trimmed, raises and leaves the item list and the index
\* as they were; so does add_or_merge with a code outside the grammar or a
\* surface that is empty once trimmed
FailuresLeaveInventory ==
    [][ret2' = None =>
          /\ (/\ ret'.op = "add_alias"
              /\ \/ \A k \in 1..Len(items) : items[k].id # ret'.item_id
                 \/ Strip(ret'.surface) = << >>)
                => (ret'.raised /\ items' = items /\ by_id' = by_id)
          /\ (/\ ret'.op = "add_or_merge"
              /\ \/ ~CodeOk(ret'.code)
                 \/ Strip(ret'.surface) = << >>)
                => (ret'.raised /\ items' = items /\ by_id' = by_id)]_vars

\* an add_or_merge with a code outside the grammar raised on an inventory
\* that holds two items and an alias
FailuresLeaveInventoryWitness ==
    /\ ret.op = "add_or_merge"
    /\ ret.raised
    /\ ret.code = BadCode
    /\ Strip(ret.surface) # << >>
    /\ Len(items) = 2
    /\ Len(items[1].aliases) = 1

\* C16: an item that add_or_merge creates gets the id max(ids in use) + 1 and
\* goes to the end of the list; no call removes an item or changes an id; the
\* ids of the list are distinct and increase in list order
ItemIdAllocation ==
    [][/\ Len(items') >= Len(items)
       /\ \A k \in 1..Len(items) : items'[k].id = items[k].id
       /\ (ret2' = None /\ ret'.op = "add_or_merge" /\ ret'.created) =>
            /\ Len(items') = Len(items) + 1
            /\ items'[Len(items')].id = MaxOf({items[k].id : k \in 1..Len(items)}) + 1
            /\ ret'.id = items'[Len(items')].id
       /\ \A i, j \in 1..Len(items') : i < j => items'[i].id < items'[j].id]_vars

\* a second item was created after the first one had got an alias
ItemIdAllocationWitness ==
    /\ ret.op = "add_or_merge"
    /\ ret.created
    /\ ret.id = 2
    /\ Len(items) = 2
    /\ Len(items[1].aliases) = 1

----------------------------------------------------------------------------
(* The alias commands: items are added, then aliases through the command   *)
(* line, which loads the inventory, calls add_alias and saves              *)

\* most aliases an item gets through the alias command
MaxInvAliases == 2

AliasSurfaces == {<<"x">>, <<"y">>, <<" ", "y">>, <<"z">>, <<" ">>}

\* a load_inventory that finds no file
load_inventory_NoFile(its) == [items |-> << >>, by_id |-> << >>]

\* store.load_inventory: Inventory.model_validate builds the index anew
load_inventory(its) == [items |-> its, by_id |-> BuildIndex(its)]

\* cli.alias_add: load the inventory, inv.add_alias, save
alias_add(item_id, alias_surface) ==
    /\ pc = "idle"
    /\ LET inv == load_inventory(items)
           r == add_alias(inv.items, inv.by_id, item_id, alias_surface)
       IN  /\ \A k \in 1..Len(r.items) : Len(r.items[k].aliases) <= MaxInvAliases
           /\ items' = r.items
           /\ by_id' = r.by_id
           /\ ret' = [op |-> "add_alias", item_id |-> item_id,
                      surface |-> alias_surface, raised |-> r.raised,
                      value |-> r.value]
    /\ ret2' = None
    /\ UNCHANGED <<pc, text, red, restored, red2, masked, masked2, raw, selected,
                 seg_out, parsed, batch, disk, writers>>

NextAlias ==
    \/ \E d \in InvDescs, s \in AliasSurfaces : AddOrMerge(Code1A, d, s)
    \/ \E i \in 1..(MaxItems + 1), s \in AliasSurfaces : alias_add(i, s)

SpecAlias == Init /\ [][NextAlias]_vars

\* the item of the list with this id has the trimmed surface as its canonical
\* surface or among its aliases
HasSurface(its, item_id, surface) ==
    \E k \in 1..Len(its) :
        /\ its[k].id = item_id
        /\ \/ its[k].surface = Strip(surface)
           \/ \E a \in 1..Len(its[k].aliases) :
                its[k].aliases[a].surface = Strip(surface)

\* C13: add_alias with a surface that, trimmed, is the canonical surface of
\* the item or the surface of one of its aliases returns 0 without raising
\* and leaves the item list, every alias list and the index as they were
DuplicateAliasNoOp ==
    [][(/\ ret'.op = "add_alias"
        /\ HasSurface(items, ret'.item_id, ret'.surface))
          => /\ ~ret'.raised
             /\ ret'.value = 0
             /\ items' = items
             /\ by_id' = by_id]_vars

\* the untrimmed surface of an existing alias was offered again
DuplicateAliasNoOpWitness ==
    /\ ret.op = "add_alias"
    /\ ret.surface = <<" ", "y">>
    /\ ret.value = 0
    /\ ~ret.raised
    /\ \E k \in 1..Len(items) :
        /\ items[k].id = ret.item_id
        /\ Len(items[k].aliases) = 1
        /\ items[k].aliases[1].surface = <<"y">>

\* C15: add_alias with a surface the item does not have, not empty once
\* trimmed, appends to that item one alias with the trimmed surface and the
\* id max(alias ids of the item) + 1, returns that id, and changes no other
\* item; the alias ids of every item increase in list order
AliasIdAllocation ==
    [][/\ (/\ ret'.op = "add_alias"
           /\ Strip(ret'.surface) # << >>
           /\ ~HasSurface(items, ret'.item_id, ret'.surface))
            => \A k \in 1..Len(items) :
                 items[k].id = ret'.item_id =>
                    LET n == MaxOf({items[k].aliases[a].id :
                                        a \in 1..Len(items[k].aliases)}) + 1
                    IN  /\ ~ret'.raised
                        /\ ret'.value = n
                        /\ n > 0
                        /\ items' = [items EXCEPT ![k].aliases =
                              Append(@, [id |-> n, surface |-> Strip(ret'.surface)])]
       /\ \A k \in 1..Len(items') :
            \A a, b \in 1..Len(items'[k].aliases) :
                a < b => items'[k].aliases[a].id < items'[k].aliases[b].id]_vars

\* the second item got its second alias while the first item has one
AliasIdAllocationWitness ==
    /\ ret.op = "add_alias"
    /\ ret.item_id = 2
    /\ ret.value = 2
    /\ Len(items) = 2
    /\ Len(items[1].aliases) = 1
    /\ Len(items[2].aliases) = 2
    /\ items[2].aliases[2].id = 2

----------------------------------------------------------------------------
(* Unredaction alone: an inventory is built, through its methods or as the *)
(* unredact tests build theirs, and unredact_text runs on a text of tags    *)

\* most pieces (tags, plain characters) a text of tags is put together from
MaxPieces == 2

\* the item the unredact tests append: id 10, one alias with id 1
TestItem ==
    [id |-> 10, code |-> Code1A, desc |-> <<"k">>, surface |-> <<"x">>,
     aliases |-> <<Alias(1, <<"y">>)>>, scope |-> "global"]

\* item ids the tags of the texts name
TagIds == {1, 2, 10}

\* a tag piece for (item id, variant, alias id) or a plain piece
TagPiece(i, v, n) ==
    [kind |-> "tag", item_id |-> i, variant |-> v, alias_id |-> n, chunk |-> << >>]
PlainPiece(c) ==
    [kind |-> "plain", item_id |-> 0, variant |-> "c", alias_id |-> NoAlias, chunk |-> c]

Pieces ==
    {TagPiece(i, "c", NoAlias) : i \in TagIds}
        \cup {TagPiece(i, "a", n) : i \in TagIds, n \in {1, 2}}
        \cup {PlainPiece(<<"x">>), PlainPiece(<<" ">>)}

PieceSeqs == SeqsUpTo(Pieces, MaxPieces)

\* the text of one piece: a tag as the redactor writes it, or the characters
PieceText(p) ==
    IF p.kind = "tag"
    THEN TagOf([item_id |-> p.item_id, variant |-> p.variant, alias_id |-> p.alias_id,
                code |-> Code1A, desc |-> <<"k">>])
    ELSE p.chunk

RECURSIVE Render(_)
Render(ps) == IF ps = << >> THEN << >> ELSE PieceText(Head(ps)) \o Render(Tail(ps))

\* make_inventory_for_unredact: Inventory(items=[]), then inv.items.append(item)
make_inventory_for_unredact ==
    /\ pc = "idle"
    /\ items = << >>
    /\ items' = Append(items, TestItem)
    /\ by_id' = BuildIndex(<< >>)
    /\ ret' = None
    /\ ret2' = None
    /\ UNCHANGED <<pc, text, red, restored, red2, masked, masked2, raw, selected,
                 seg_out, parsed, batch, disk, writers>>

\* out = unredact_text(text, inv)
UnredactText(t) ==
    /\ pc = "idle"
    /\ text' = t
    /\ restored' = unredact_text(t, items, by_id)
    /\ pc' = "unredacted"
    /\ ret' = None
    /\ ret2' = None
    /\ UNCHANGED <<items, by_id, red, red2, masked, masked2, raw, selected,
                 seg_out, parsed, batch, disk, writers>>

NextUnredact ==
    \/ make_inventory_for_unredact
    \/ \E s \in {<<"x">>, <<"y">>} : AddOrMerge(Code1A, <<"k">>, s)
    \/ \E i \in TagIds, s \in {<<"x">>, <<"y">>} : AddAlias(i, s)
    \/ \E ps \in PieceSeqs : UnredactText(Render(ps))

SpecUnredact == Init /\ [][NextUnredact]_vars

\* the item list has an item with this id
InList(its, item_id) == \E k \in 1..Len(its) : its[k].id = item_id

\* the item of the list with this id
ListItem(its, item_id) == its[CHOOSE k \in 1..Len(its) : its[k].id = item_id]

\* the surface of alias n of the item of the list with this id, << >> when
\* the list has no such item or the item no such alias
ListAlias(its, item_id, n) ==
    IF ~InList(its, item_id) THEN << >>
    ELSE LET al == ListItem(its, item_id).aliases
             hit == {a \in 1..Len(al) : al[a].id = n}
         IN  IF hit = {} THEN << >> ELSE al[CHOOSE a \in hit : TRUE].surface

\* what a piece is to become. A plain piece stays. A tag in the scope of the
\* rule becomes what the rule says: "canonical" (variant c, item in the list)
\* the canonical surface; "alias" (variant a<N>, item in the list) the surface
\* of alias N, or the canonical surface when the item has no alias N;
\* "unknown" (item not in the list) the tag itself. A tag outside the scope of
\* the rule becomes what unredact_text makes of that tag alone.
Outcome(rule, p) ==
    IF p.kind = "plain" THEN p.chunk
    ELSE IF rule = "canonical" /\ p.variant = "c" /\ InList(items, p.item_id)
    THEN ListItem(items, p.item_id).surface
    ELSE IF rule = "alias" /\ p.variant = "a" /\ InList(items, p.item_id)
    THEN IF ListAlias(items, p.item_id, p.alias_id) # << >>
         THEN ListAlias(items, p.item_id, p.alias_id)
         ELSE ListItem(items, p.item_id).surface
    ELSE IF rule = "unknown" /\ ~InList(items, p.item_id)
    THEN PieceText(p)
    ELSE unredact_text(PieceText(p), items, by_id)

RECURSIVE Outcomes(_, _)
Outcomes(rule, ps) ==
    IF ps = << >> THEN << >> ELSE Outcome(rule, Head(ps)) \o Outcomes(rule, Tail(ps))

\* C17: the id index agrees with the item list: find(k) is the item of the
\* list whose id is k, and is absent exactly when the list has no item with
\* id k
IndexConsistent ==
    \A k \in 0..12 :
        LET p == find(by_id, k)
        IN  /\ p = 0 <=> ~InList(items, k)
            /\ p # 0 => (p \in 1..Len(items) /\ items[p].id = k)

\* C18: unredact_text replaces every tag of variant c whose item id is in the
\* item list by the canonical surface of that item, each tag of the text on
\* its own and in text order, and keeps the text outside the tags
UnredactCanonical ==
    pc = "unredacted" =>
        \A ps \in PieceSeqs :
            text = Render(ps) => restored = Outcomes("canonical", ps)

\* C19: unredact_text replaces a tag of variant a<N> whose item is in the
\* item list by the surface of alias N of that item, and by the canonical
\* surface when the item has no alias N; get_alias_surface returns the
\* surface of alias N of the item exactly when the list has that item with
\* that alias, and nothing otherwise
UnredactAlias ==
    /\ pc = "unredacted" =>
        \A ps \in PieceSeqs :
            text = Render(ps) => restored = Outcomes("alias", ps)
    /\ \A i \in TagIds, n \in 0..2 :
        get_alias_surface(items, by_id, i, n) = ListAlias(items, i, n)

\* C20: unredact_text leaves a tag, of variant c or a<N>, whose item id is
\* not in the item list as it stands; a text all of whose tags name such ids
\* comes back unchanged
UnknownKept ==
    pc = "unredacted" =>
        \A ps \in PieceSeqs :
            text = Render(ps) =>
                /\ restored = Outcomes("unknown", ps)
                /\ (\A k \in 1..Len(ps) :
                        ps[k].kind = "tag" => ~InList(items, ps[k].item_id))
                    => restored = text

\* a tag of an unknown item was kept next to a tag that was replaced
UnknownKeptWitness ==
    /\ pc = "unredacted"
    /\ Len(items) = 1
    /\ items[1].id = 1
    /\ text = Render(<<TagPiece(2, "a", 1), TagPiece(1, "c", NoAlias)>>)
    /\ restored = PieceText(TagPiece(2, "a", 1)) \o items[1].surface

----------------------------------------------------------------------------
(* The matcher on one chunk: an inventory is built, the chunk is scanned   *)
(* with the automaton of its patterns, the raw matches are resolved        *)

\* longest chunk handed to the matcher
MaxChunk == 3

MatchSurfaces == {<<"x">>, <<"x", "y">>, <<"y">>}
MatchChunks == SeqsUpTo({"x", "y"}, MaxChunk)

\* apply_redactions up to collect_matches, for a text of one redactable chunk:
\* the pattern list, the automaton, the masked chunk, the raw matches
CollectMatches(t) ==
    /\ pc = "idle"
    /\ text' = t
    /\ raw' = collect_matches(build_automaton(Patterns(items)), mask_existing_tags(t))
    /\ pc' = "raw"
    /\ ret' = None
    /\ ret2' = None
    /\ UNCHANGED <<items, by_id, red, restored, red2, masked, masked2, selected,
                 seg_out, parsed, batch, disk, writers>>

NextMatch ==
    \/ \E c \in {Code1A, Code3Ab}, s \in MatchSurfaces : AddOrMerge(c, <<"k">>, s)
    \/ \E i \in 1..MaxItems, s \in MatchSurfaces : AddAlias(i, s)
    \/ \E t \in MatchChunks : CollectMatches(t)
    \/ Select

SpecMatch == Init /\ [][NextMatch]_vars

\* the surface stands in s at 0-based position p
OccursAt(s, p, surface) ==
    /\ p + Len(surface) <= Len(s)
    /\ Slice(s, p, p + Len(surface)) = surface

\* C21: for every pattern of the flattened pattern set and every position at
\* which its surface stands in the scanned text, the raw match list has a
\* match with that start, that end and the payload of that pattern, also when
\* patterns of different items have the same surface; and every raw match
\* spans its surface in the text
MatcherComplete ==
    pc \in {"raw", "selected"} =>
        LET ps == Patterns(items)
        IN  /\ \A k \in 1..Len(ps), p \in 0..Len(text) :
                (ps[k].surface # << >> /\ OccursAt(text, p, ps[k].surface)) =>
                    \E j \in 1..Len(raw) :
                        raw[j] = Match(p, p + Len(ps[k].surface), ps[k])
            /\ \A j \in 1..Len(raw) :
                Slice(text, raw[j].start, raw[j].end) = raw[j].surface

\* C27: when the surfaces of two patterns of different items are the same
\* string and stand at a position of the text, the raw match list has a match
\* for each of them; of two raw matches with the same start and the same
\* length the resolver keeps the one reported first and not the other
TieBreakFirstReported ==
    pc = "selected" =>
        LET ps == Patterns(items)
        IN  /\ \A k, l \in 1..Len(ps), p \in 0..Len(text) :
                (/\ ps[k].item_id # ps[l].item_id
                 /\ ps[k].surface = ps[l].surface
                 /\ OccursAt(text, p, ps[k].surface)) =>
                    \E i, j \in 1..Len(raw) :
                        /\ raw[i] = Match(p, p + Len(ps[k].surface), ps[k])
                        /\ raw[j] = Match(p, p + Len(ps[l].surface), ps[l])
            /\ \A i, j \in 1..Len(raw) :
                (i < j /\ raw[i].start = raw[j].start /\ raw[i].end = raw[j].end
                       /\ raw[i] # raw[j]) =>
                    /\ \A n \in 1..Len(selected) : selected[n] # raw[j]
                    /\ (\E n \in 1..Len(selected) :
                            selected[n].start = raw[i].start /\ selected[n].end = raw[i].end)
                        => \E n \in 1..Len(selected) : selected[n] = raw[i]

\* the elements of l at the positions K, in the order of l
Pick(l, K) ==
    [i \in 1..Cardinality(K) |->
        l[CHOOSE k \in K : Cardinality({j \in K : j < k}) = i - 1]]

\* the end of the kept match that stands last before position n, -1 for none
LastEnd(l, K, n) ==
    LET before == {k \in K : k < n}
    IN  IF before = {} THEN -1 ELSE l[MaxOf(before)].end

\* C26: with the raw matches in the order (start ascending, length
\* descending), a match is kept iff its start is >= the end of the match kept
\* last before it, and every match that is not kept overlaps a kept match
\* that stands before it in that order
SweepRule ==
    pc = "selected" =>
        LET srt == Sorted(<< >>, raw)
        IN  /\ \A a, b \in 1..Len(srt) :
                a < b => \/ srt[a].start < srt[b].start
                         \/ /\ srt[a].start = srt[b].start
                            /\ srt[a].end >= srt[b].end
            /\ \E K \in SUBSET (1..Len(srt)) :
                /\ selected = Pick(srt, K)
                /\ \A n \in 1..Len(srt) :
                    n \in K <=> srt[n].start >= LastEnd(srt, K, n)
                /\ \A n \in (1..Len(srt)) \ K :
                    \E m \in K : /\ m < n
                                 /\ srt[m].start < srt[n].end
                                 /\ srt[n].start < srt[m].end

\* a kept match blocks a longer match that starts later: the one kept covers
\* fewer characters than the one discarded would
SweepRuleWitness ==
    /\ pc = "selected"
    /\ Len(raw) = 2
    /\ raw[1].start < raw[2].start
    /\ raw[2].start < raw[1].end
    /\ raw[2].end - raw[2].start > raw[1].end - raw[1].start
    /\ selected = <<raw[1]>>

----------------------------------------------------------------------------
(* The segmenter alone: a text is split at its fenced blocks               *)

\* most fragments a text handed to the segmenter is put together from
MaxSegFrags == 3

\* an opening fence line with a language tag
OpenTagged == TICKS \o <<"x", "\n">>

SegFragments == {<<"x">>, <<"\n">>, XLine, TICKS, OpenTagged, FencedX}
SegTexts == Concats(SegFragments, MaxSegFrags)

InitSegment ==
    /\ items = << >>
    /\ by_id = BuildIndex(<< >>)
    /\ ret = None
    /\ ret2 = None
    /\ pc = "unsegmented"
    /\ text \in SegTexts
    /\ red = NoResult
    /\ restored = << >>
    /\ red2 = NoResult
    /\ masked = << >>
    /\ masked2 = << >>
    /\ raw = << >>
    /\ selected = << >>
    /\ seg_out = << >>
    /\ parsed = None
    /\ batch = None
    /\ disk = << >>
    /\ writers = << >>

\* segs = segment(text)
Segment ==
    /\ pc = "unsegmented"
    /\ seg_out' = segment(text)
    /\ pc' = "segmented"
    /\ UNCHANGED <<items, by_id, ret, ret2, text, red, restored, red2, masked, masked2,
                 raw, selected, parsed, batch, disk, writers>>

NextSegment == Segment

SpecSegment == InitSegment /\ [][NextSegment]_vars

\* s[a..b) is a fenced span: an opening marker at the start of a line, and b
\* the end of the first line after the opening line that is the marker alone
IsFenceSpan(s, a, b) ==
    LET IsCloser(c) == /\ IsLineStart(s, c) /\ StartsWithAt(s, c, TICKS)
                       /\ IsLineEnd(s, c + 3)
    IN  /\ IsLineStart(s, a)
        /\ StartsWithAt(s, a, TICKS)
        /\ b - 3 >= a + 4
        /\ IsCloser(b - 3)
        /\ \A c \in (a + 4)..(b - 4) : ~IsCloser(c)

\* a fenced span starts at position a of s
FenceStartsAt(s, a) == \E b \in a..Len(s) : IsFenceSpan(s, a, b)

\* 0-based offset of segment k in the text
SegOffset(k) ==
    Len(Join([j \in 1..(k - 1) |-> seg_out[j].chunk]))

\* C22: the chunks of segment(text), joined in order, are the text; a segment
\* that is not redactable is a fenced span of the text, verbatim; no fenced
\* span starts inside a redactable segment
SegmentsCover ==
    pc = "segmented" =>
        /\ Join([k \in 1..Len(seg_out) |-> seg_out[k].chunk]) = text
        /\ \A k \in 1..Len(seg_out) :
            LET a == SegOffset(k)
                b == a + Len(seg_out[k].chunk)
            IN  IF seg_out[k].redactable
                THEN \A q \in a..(b - 1) : ~FenceStartsAt(text, q)
                ELSE IsFenceSpan(text, a, b)

\* text before a fence, the fence with a surface inside, and text after it
SegmentsCoverWitness ==
    /\ pc = "segmented"
    /\ text = XLine \o FencedX \o <<"\n">>
    /\ Len(seg_out) = 3
    /\ ~seg_out[2].redactable
    /\ seg_out[2].chunk = FencedX

\* C23: for a text without a fenced span, of any length, zero included,
\* segment returns exactly one segment, the whole text, redactable
NoFenceOneSegment ==
    (pc = "segmented" /\ \A a \in 0..Len(text) : ~FenceStartsAt(text, a)) =>
        seg_out = <<[chunk |-> text, redactable |-> TRUE]>>

----------------------------------------------------------------------------
(* badges.py and the badge expressions of patterns.py                      *)

\* (\([1-4]\)\([A-EX]\)(?:\([a-ex]\))?) tried at position i: the end of the
\* group, or -1
CodeEndAt(s, i) ==
    IF i + 9 <= Len(s) /\ CodeOk(Slice(s, i, i + 9)) THEN i + 9
    ELSE IF i + 6 <= Len(s) /\ CodeOk(Slice(s, i, i + 6)) THEN i + 6
    ELSE -1

NoBadge == [ok |-> FALSE, code |-> << >>, desc |-> << >>, surface |-> << >>]

\* the tail of both badge expressions from position i on, \s*(.+?)\s*$ : the
\* group, << >> when it cannot match
BadgeSurface(s, i) == RStrip(Slice(s, SkipSpaces(s, i), Len(s)))

\* BADGE_ARROW_RE.match(line): groups 1, 2, 3
BADGE_ARROW_RE(s) ==
    LET head == <<"[", "R", "E", "D", "A", "C", "T", "E", "D", ":">>
        a == SkipSpaces(s, 0)
        c == SkipSpaces(s, a + Len(head))
        e == CodeEndAt(s, c)
        comma == SkipSpaces(s, e)
        close == FindChar(s, comma + 1, "]")
        arrow == SkipSpaces(s, close + 1)
    IN  IF ~StartsWithAt(s, a, head) \/ e = -1 THEN NoBadge
        ELSE IF ~StartsWithAt(s, comma, <<",">>) THEN NoBadge
        ELSE IF close >= Len(s) \/ close = comma + 1 THEN NoBadge
        ELSE IF ~StartsWithAt(s, arrow, <<"=", ">">>) THEN NoBadge
        ELSE IF BadgeSurface(s, arrow + 2) = << >> THEN NoBadge
        ELSE [ok |-> TRUE, code |-> Slice(s, c, e),
              desc |-> RStrip(Slice(s, SkipSpaces(s, comma + 1), close)),
              surface |-> BadgeSurface(s, arrow + 2)]

\* BADGE_PIPE_RE.match(line): groups 1, 2, 3
BADGE_PIPE_RE(s) ==
    LET a == SkipSpaces(s, 0)
        e == CodeEndAt(s, a)
        bar == SkipSpaces(s, e)
        bar2 == FindChar(s, bar + 1, "|")
    IN  IF e = -1 THEN NoBadge
        ELSE IF ~StartsWithAt(s, bar, <<"|">>) THEN NoBadge
        ELSE IF bar2 >= Len(s) \/ bar2 = bar + 1 THEN NoBadge
        ELSE IF BadgeSurface(s, bar2 + 1) = << >> THEN NoBadge
        ELSE [ok |-> TRUE, code |-> Slice(s, a, e),
              desc |-> RStrip(Slice(s, SkipSpaces(s, bar + 1), bar2)),
              surface |-> BadgeSurface(s, bar2 + 1)]

\* parse_badge_lines(line): "none" for an empty or comment line, "badge" with
\* (code, desc.strip(), surface), or "error" for the ValueError
parse_badge_lines(l) ==
    LET line == Strip(l)
        m == IF BADGE_ARROW_RE(line).ok THEN BADGE_ARROW_RE(line) ELSE BADGE_PIPE_RE(line)
    IN  IF line = << >> \/ StartsWithAt(line, 0, <<"#">>)
        THEN [kind |-> "none", code |-> << >>, desc |-> << >>, surface |-> << >>]
        ELSE IF ~m.ok \/ ~CodeOk(m.code)
        THEN [kind |-> "error", code |-> << >>, desc |-> << >>, surface |-> << >>]
        ELSE [kind |-> "badge", code |-> m.code, desc |-> Strip(m.desc),
              surface |-> m.surface]

\* a parse_badges that numbers only the lines it does not skip
RECURSIVE parse_badges_CountsParsed(_, _, _)
parse_badges_CountsParsed(lines, index, out) ==
    IF lines = << >> THEN [out |-> out, error |-> 0]
    ELSE LET line == Head(lines)
             result == parse_badge_lines(line)
         IN  IF Strip(line) = << >> \/ StartsWithAt(LStrip(line), 0, <<"#">>)
             THEN parse_badges_CountsParsed(Tail(lines), index, out)
             ELSE IF result.kind = "error" THEN [out |-> out, error |-> index]
             ELSE parse_badges_CountsParsed(Tail(lines), index + 1,
                    IF result.kind = "badge"
                    THEN Append(out, <<result.code, result.desc, result.surface>>)
                    ELSE out)

\* parse_badges(lines) from the line numbered index on: the triples yielded
\* and the number of the line the ValueError names (0: no error)
RECURSIVE parse_badges(_, _, _)
parse_badges(lines, index, out) ==
    IF lines = << >> THEN [out |-> out, error |-> 0]
    ELSE LET line == Head(lines)
             result == parse_badge_lines(line)
         IN  IF Strip(line) = << >> \/ StartsWithAt(LStrip(line), 0, <<"#">>)
             THEN parse_badges(Tail(lines), index + 1, out)
             ELSE IF result.kind = "error" THEN [out |-> out, error |-> index]
             ELSE parse_badges(Tail(lines), index + 1,
                    IF result.kind = "badge"
                    THEN Append(out, <<result.code, result.desc, result.surface>>)
                    ELSE out)

----------------------------------------------------------------------------
(* Badge ingestion alone: a list of lines goes through parse_badges        *)

\* most lines of a badge file
MaxLines == 3

\* a line in the pipe form and a line in the arrow form
PipeLine(code, desc, surface) ==
    code \o <<" ", "|", " ">> \o desc \o <<" ", "|", " ">> \o surface
ArrowLine(code, desc, surface) ==
    <<"[", "R", "E", "D", "A", "C", "T", "E", "D", ":", " ">> \o code
        \o <<",", " ">> \o desc \o <<"]", " ", "=", ">", " ">> \o surface

\* a line of a badge file with what it is: skipped (blank or comment), a
\* badge in one of the two forms with its triple, or bad
BadgeLine(form, code, desc, surface, line) ==
    [form |-> form, code |-> code, desc |-> desc, surface |-> surface, line |-> line]

BadgeLines ==
    {BadgeLine("skip", << >>, << >>, << >>, l) :
        l \in {<< >>, <<" ">>, <<"#", "x">>, <<" ", "#", "x">>}}
    \cup {BadgeLine("pipe", c, <<"k">>, <<"x">>, PipeLine(c, <<"k">>, <<"x">>)) :
            c \in {Code1A, Code3Ab}}
    \cup {BadgeLine("arrow", Code1A, <<"k">>, <<"y">>, ArrowLine(Code1A, <<"k">>, <<"y">>))}
    \cup {BadgeLine("bad", << >>, << >>, << >>, l) :
            l \in {<<"x">>, PipeLine(BadCode, <<"k">>, <<"x">>),
                   Code1A \o <<" ", "|", " ", "k", " ", "|">>}}

\* results = parse_badges(lines), consumed to its end or to its error
ParseBadges(lines) ==
    /\ pc = "idle"
    /\ LET r == parse_badges(lines, 1, << >>)
       IN  parsed' = [lines |-> lines, out |-> r.out, error |-> r.error]
    /\ pc' = "parsed"
    /\ UNCHANGED <<items, by_id, ret, ret2, text, red, restored, red2, masked, masked2,
                 raw, selected, seg_out, batch, disk, writers>>

NextBadges ==
    \E ls \in SeqsUpTo(BadgeLines, MaxLines) :
        ParseBadges([k \in 1..Len(ls) |-> ls[k].line])

SpecBadges == Init /\ [][NextBadges]_vars

\* what a line of the file is
LineKind(l) == CHOOSE b \in BadgeLines : b.line = l

\* C24: parse_badges yields, in input order, the triple of every line in one
\* of the two forms that stands before the first bad line, skips blank and
\* comment lines, and raises at the first bad line an error with the 1-based
\* number of that line, skipped lines counted; without a bad line it raises
\* nothing
BadgeIngestion ==
    pc = "parsed" =>
        LET ls == parsed.lines
            bad == {k \in 1..Len(ls) : LineKind(ls[k]).form = "bad"}
            stop == IF bad = {} THEN Len(ls) + 1
                    ELSE CHOOSE k \in bad : \A j \in bad : k <= j
            good == {k \in 1..(stop - 1) : LineKind(ls[k]).form \in {"pipe", "arrow"}}
            triples == [k \in 1..Len(ls) |->
                            <<LineKind(ls[k]).code, LineKind(ls[k]).desc,
                              LineKind(ls[k]).surface>>]
        IN  /\ parsed.error = (IF bad = {} THEN 0 ELSE stop)
            /\ parsed.out = Pick(triples, good)

\* a comment, a badge, then a bad line: one triple and an error for line 3
BadgeIngestionWitness ==
    /\ pc = "parsed"
    /\ Len(parsed.lines) = 3
    /\ parsed.lines[1] = <<"#", "x">>
    /\ parsed.lines[2] = ArrowLine(Code1A, <<"k">>, <<"y">>)
    /\ parsed.lines[3] = <<"x">>
    /\ parsed.out = <<(<<Code1A, <<"k">>, <<"y">>>>)>>
    /\ parsed.error = 3

----------------------------------------------------------------------------
(* The redact and unredact commands: the inventory is loaded once, then    *)
(* each file is read, processed and written, in the order the directory    *)
(* walk gives                                                              *)

\* most files of a source directory
MaxFiles == 2

RedactDocs == {<<"x">>, <<"x", "y">>, <<"y", "\n", "x">>}
UnredactDocs ==
    {PieceText(TagPiece(1, "c", NoAlias)), PieceText(TagPiece(1, "a", 1)),
     <<"x">> \o PieceText(TagPiece(2, "c", NoAlias))}

\* the source directories: file number -> text
Directories(docs) ==
    UNION {[1..n -> docs] : n \in 1..MaxFiles}

\* a loop body that appends the matches of the file to a list it shares with
\* the files before it
ProcessFile_SharedMatches(b, p) ==
    IF b.cmd = "redact"
    THEN LET r == apply_redactions(b.files[p], b.inv.items)
             n == b.total + Len(r.matches)
         IN  [b EXCEPT !.pending = @ \ {p},
                       !.outs = [q \in DOMAIN @ \cup {p} |-> IF q = p THEN r.text ELSE @[q]],
                       !.counts = [q \in DOMAIN @ \cup {p} |-> IF q = p THEN n ELSE @[q]],
                       !.total = n]
    ELSE LET u == unredact_text(b.files[p], b.inv.items, b.inv.by_id)
         IN  [b EXCEPT !.pending = @ \ {p},
                       !.outs = [q \in DOMAIN @ \cup {p} |-> IF q = p THEN u ELSE @[q]],
                       !.counts = [q \in DOMAIN @ \cup {p} |-> IF q = p THEN 0 ELSE @[q]]]

\* the body of the file loop of redact (apply_redactions, write, count,
\* total += len(matches)) and of unredact (unredact_text, write)
ProcessFile(b, p) ==
    IF b.cmd = "redact"
    THEN LET r == apply_redactions(b.files[p], b.inv.items)
         IN  [b EXCEPT !.pending = @ \ {p},
                       !.outs = [q \in DOMAIN @ \cup {p} |-> IF q = p THEN r.text ELSE @[q]],
                       !.counts = [q \in DOMAIN @ \cup {p} |->
                                        IF q = p THEN Len(r.matches) ELSE @[q]],
                       !.total = @ + Len(r.matches)]
    ELSE LET u == unredact_text(b.files[p], b.inv.items, b.inv.by_id)
         IN  [b EXCEPT !.pending = @ \ {p},
                       !.outs = [q \in DOMAIN @ \cup {p} |-> IF q = p THEN u ELSE @[q]],
                       !.counts = [q \in DOMAIN @ \cup {p} |-> IF q = p THEN 0 ELSE @[q]]]

\* redact / unredact up to the file loop: inv = load_inventory(inventory),
\* md_files, total = 0
BatchStart(cmd, files) ==
    /\ pc = "idle"
    /\ batch' = [cmd |-> cmd, files |-> files, inv |-> load_inventory(items),
                 pending |-> DOMAIN files, outs |-> << >>, counts |-> << >>,
                 total |-> 0]
    /\ pc' = "batch"
    /\ ret' = None
    /\ ret2' = None
    /\ UNCHANGED <<items, by_id, text, red, restored, red2, masked, masked2,
                 raw, selected, seg_out, parsed, disk, writers>>

\* one turn of the file loop, for the file the walk gives next
BatchFile(p) ==
    /\ pc = "batch"
    /\ p \in batch.pending
    /\ batch' = ProcessFile(batch, p)
    /\ UNCHANGED <<items, by_id, ret, ret2, pc, text, red, restored, red2, masked,
                 masked2, raw, selected, seg_out, parsed, disk, writers>>

NextBatch ==
    \/ \E s \in {<<"x">>, <<"y">>} : AddOrMerge(Code1A, <<"k">>, s)
    \/ \E i \in 1..MaxItems, s \in {<<"x">>, <<"y">>} : AddAlias(i, s)
    \/ \E files \in Directories(RedactDocs) : BatchStart("redact", files)
    \/ \E files \in Directories(UnredactDocs) : BatchStart("unredact", files)
    \/ \E p \in 1..MaxFiles : BatchFile(p)

SpecBatch == Init /\ [][NextBatch]_vars

\* the sum of f over the set S of its arguments
RECURSIVE SumOver(_, _)
SumOver(f, S) ==
    IF S = {} THEN 0
    ELSE LET x == CHOOSE y \in S : TRUE IN f[x] + SumOver(f, S \ {x})

----------------------------------------------------------------------------
(* The writer commands and the inventory file: import_badges and alias add *)
(* load the whole file, change the copy in memory and save it by full      *)
(* overwrite; nothing in the code keeps two of them apart                  *)

\* most writer commands in a run
MaxCommands == 3

\* most lines of an imported badge file
MaxImportLines == 2

StoreLines ==
    {PipeLine(Code1A, <<"k">>, <<"x">>), ArrowLine(Code1A, <<"k">>, <<"y">>),
     <<"#", "x">>, <<"x">>}

ImportFiles == SeqsUpTo(StoreLines, MaxImportLines)

\* store.save_inventory: the file holds the dump of the whole inventory
save_inventory(inv) == inv.items

\* the for loop of import_badges over the triples parse_badges yields:
\* inv.add_or_merge, n_added += 1, until one raises
RECURSIVE MergeAll(_, _, _)
MergeAll(inv, triples, n_added) ==
    IF triples = << >> THEN [inv |-> inv, raised |-> FALSE, n_added |-> n_added]
    ELSE LET t == Head(triples)
             r == add_or_merge(inv.items, inv.by_id, t[1], t[2], t[3])
         IN  IF r.raised
             THEN [inv |-> inv, raised |-> TRUE, n_added |-> n_added]
             ELSE MergeAll([items |-> r.items, by_id |-> r.by_id], Tail(triples),
                           n_added + 1)

\* an import that lets a ValueError end the loop and goes on to save
ImportOutcome_SavesAnyway(c, r, m) ==
    [c EXCEPT !.inv = m.inv, !.n_added = m.n_added, !.pc = "changed"]

\* how the try block of import_badges ends, r being what parse_badges gave
\* and m what the loop made of it: a ValueError of parse_badges or of
\* add_or_merge ends the command with exit code 1
ImportOutcome(c, r, m) ==
    [c EXCEPT !.inv = m.inv, !.n_added = m.n_added,
              !.pc = IF m.raised \/ r.error # 0 THEN "exit1" ELSE "changed"]

\* the for loop of import_badges on the triples r.out
ImportMerged(c, r) == ImportOutcome(c, r, MergeAll(c.inv, r.out, 0))

\* the try block of import_badges: the triples before the first bad line
\* are merged into the copy in memory
import_badges_try(c) == ImportMerged(c, parse_badges(c.lines, 1, << >>))

\* alias_id = inv.add_alias(...) in alias_add: a ValueError ends the command
alias_add_call(c) ==
    LET r == add_alias(c.inv.items, c.inv.by_id, c.item_id, c.surface)
    IN  [c EXCEPT !.inv = [items |-> r.items, by_id |-> r.by_id],
                  !.value = r.value,
                  !.pc = IF r.raised THEN "raised" ELSE "changed"]

\* the commands between their load and their save or exit
Active == {v \in DOMAIN writers : writers[v].pc \in {"loaded", "changed"}}

\* command w starts: inv = load_inventory(inventory), and for import_badges
\* the lines of the badge file
WriterLoad(w, cmd, lines, item_id, surface) ==
    /\ pc = "idle"
    /\ w \notin DOMAIN writers
    /\ w = 1 \/ w - 1 \in DOMAIN writers
    /\ writers' =
        [v \in DOMAIN writers \cup {w} |->
            IF v = w
            THEN [cmd |-> cmd, lines |-> lines, item_id |-> item_id,
                  surface |-> surface, pc |-> "loaded",
                  inv |-> load_inventory(disk), loaded |-> disk,
                  alone |-> Active = {}, n_added |-> 0, value |-> 0, saves |-> 0]
            ELSE IF v \in Active THEN [writers[v] EXCEPT !.alone = FALSE]
            ELSE writers[v]]
    /\ UNCHANGED <<items, by_id, ret, ret2, pc, text, red, restored, red2, masked,
                 masked2, raw, selected, seg_out, parsed, batch, disk>>

\* command w changes its copy in memory
WriterRun(w) ==
    /\ w \in DOMAIN writers
    /\ writers[w].pc = "loaded"
    /\ writers' = [writers EXCEPT ![w] = IF @.cmd = "import" THEN import_badges_try(@)
                                         ELSE alias_add_call(@)]
    /\ UNCHANGED <<items, by_id, ret, ret2, pc, text, red, restored, red2, masked,
                 masked2, raw, selected, seg_out, parsed, batch, disk>>

\* command w ends with save_inventory(inv, inventory)
WriterSave(w) ==
    /\ w \in DOMAIN writers
    /\ writers[w].pc = "changed"
    /\ disk' = save_inventory(writers[w].inv)
    /\ writers' = [writers EXCEPT ![w].pc = "done", ![w].saves = @ + 1]
    /\ UNCHANGED <<items, by_id, ret, ret2, pc, text, red, restored, red2, masked,
                 masked2, raw, selected, seg_out, parsed, batch>>

NextStore ==
    \/ \E w \in 1..MaxCommands, ls \in ImportFiles :
            WriterLoad(w, "import", ls, 0, << >>)
    \/ \E w \in 1..MaxCommands, i \in 1..MaxItems, s \in {<<"y">>, <<"z">>} :
            WriterLoad(w, "alias", << >>, i, s)
    \/ \E w \in 1..MaxCommands : WriterRun(w)
    \/ \E w \in 1..MaxCommands : WriterSave(w)

SpecStore == Init /\ [][NextStore]_vars

\* the numbers of the first bad line of a badge file (Len + 1: none) and of
\* the badge lines before it
FirstBad(ls) ==
    First({k \in 1..(Len(ls) + 1) : k = Len(ls) + 1 \/ LineKind(ls[k]).form = "bad"})
BadgesBefore(ls, stop) ==
    {k \in 1..(stop - 1) : LineKind(ls[k]).form \in {"pipe", "arrow"}}

\* the item list has an item of this code that carries the surface
Carries(its, code, surface) ==
    \E k \in 1..Len(its) :
        /\ its[k].code = code
        /\ \/ its[k].surface = surface
           \/ \E a \in 1..Len(its[k].aliases) : its[k].aliases[a].surface = surface

\* C28: an import whose file has a bad line ends with exit code 1 at the
\* step that reads the file, saves nothing (the file is as it was at that
\* step and, for a command running alone, as it was loaded) although its
\* copy in memory carries the badges before the bad line; an import reaches
\* its save only when no line is bad, saves once, and the file then carries
\* the badge of every line
FailedImportKeepsStorage ==
    [][\A w \in DOMAIN writers :
        (writers[w].cmd = "import" /\ writers'[w].pc # writers[w].pc) =>
            LET ls == writers[w].lines
                stop == FirstBad(ls)
                c == writers'[w]
            IN  /\ c.pc \in {"exit1", "changed", "done"}
                /\ (c.pc = "exit1") = (writers[w].pc = "loaded" /\ stop <= Len(ls))
                /\ c.pc = "exit1" =>
                    /\ disk' = disk
                    /\ c.saves = 0
                    /\ c.alone => disk' = c.loaded
                    /\ \A k \in BadgesBefore(ls, stop) :
                        Carries(c.inv.items, LineKind(ls[k]).code, LineKind(ls[k]).surface)
                /\ c.pc = "changed" => disk' = disk /\ c.saves = 0
                /\ c.pc = "done" =>
                    /\ c.saves = 1
                    /\ disk' = writers[w].inv.items
                    /\ \A k \in BadgesBefore(ls, stop) :
                        Carries(disk', LineKind(ls[k]).code, LineKind(ls[k]).surface)
      ]_vars

\* after an import of x was saved, an import of y and then a bad line has
\* ended with exit code 1: its copy has two items, the file still one
FailedImportKeepsStorageWitness ==
    /\ DOMAIN writers = {1, 2}
    /\ writers[1].pc = "done"
    /\ writers[2].cmd = "import"
    /\ writers[2].lines = <<ArrowLine(Code1A, <<"k">>, <<"y">>), <<"x">>>>
    /\ writers[2].pc = "exit1"
    /\ Len(writers[2].inv.items) = 2
    /\ Len(disk) = 1
    /\ disk = writers[2].loaded

\* what a saved command added is in the item list
Kept(c, its) ==
    IF c.cmd = "import"
    THEN \A k \in BadgesBefore(c.lines, FirstBad(c.lines)) :
            Carries(its, LineKind(c.lines[k]).code, LineKind(c.lines[k]).surface)
    ELSE HasSurface(its, c.item_id, c.surface)

\* C29: as long as no command was started while another one was between
\* its load and its save, the file carries what every saved command added
\* and no two of its items have the same id
SingleWriterKeepsAll ==
    (\A w \in DOMAIN writers : writers[w].alone) =>
        /\ \A w \in DOMAIN writers : writers[w].pc = "done" => Kept(writers[w], disk)
        /\ \A i, j \in 1..Len(disk) : disk[i].id = disk[j].id => i = j

\* three commands, one at a time: x imported, y added to it as an alias,
\* z imported
SingleWriterKeepsAllWitness ==
    /\ DOMAIN writers = {1, 2, 3}
    /\ \A w \in 1..3 : writers[w].alone /\ writers[w].pc = "done"
    /\ writers[1].cmd = "import" /\ writers[2].cmd = "alias" /\ writers[3].cmd = "import"
    /\ writers[2].value = 1
    /\ Len(disk) = 2
    /\ Len(disk[1].aliases) = 1

\* two commands whose load and save steps interleave: both have saved, and
\* what one of them added is not in the file
LostUpdate ==
    \E v, w \in DOMAIN writers :
        /\ v # w
        /\ writers[v].pc = "done" /\ writers[w].pc = "done"
        /\ ~writers[v].alone /\ ~writers[w].alone
        /\ ~Kept(writers[v], disk)

\* two commands that loaded the same file have each given the id 1 to a
\* different item
SameIdTwice ==
    \E v, w \in DOMAIN writers :
        \E i \in 1..Len(writers[v].inv.items), j \in 1..Len(writers[w].inv.items) :
            /\ writers[v].inv.items[i].id = writers[w].inv.items[j].id
            /\ writers[v].inv.items[i].surface # writers[w].inv.items[j].surface
            /\ writers[v].loaded = writers[w].loaded

============================================================================
